---- MODULE Spec2Model ----
(***************************************************************************)
(* A model of rusty-typeracer: the word-wrap layout of GameTui, the        *)
(* CursorPos line/column cursor, the process_key keystroke state machine   *)
(* of Game::run with its results fold, and the order-2 Markov table.       *)
(*                                                                         *)
(* Characters are one-character strings, strings are sequences of          *)
(* characters (ASCII only: byte length = character count).  The source     *)
(* indexes from 0; cur_line and cur_char_in_line keep the source's 0-based *)
(* values and sequences are read at index + 1.                             *)
(*                                                                         *)
(* The environment: writes to the terminal and reads of its size never     *)
(* fail, the terminal keeps one size for the life of the process, and      *)
(* sizes and word lengths stay far below u16::MAX, so that the only        *)
(* arithmetic that can leave its type is the footer row of                 *)
(* display_lines_bottom and tokens.len() - 2 of create_cache.  The corpus  *)
(* input.txt and results.rs are not among the sources: the words of a run  *)
(* are drawn from GameWordSeqs and accuracy() follows the specification.   *)
(***************************************************************************)
EXTENDS Integers, Naturals, Sequences, FiniteSets, TLC

VARIABLES
    phase,            \* where the process is: see the phases listed at Init
    tui,              \* Game.tui: the GameTui and the terminal surface behind it
    term,             \* the terminal's dimensions [w, h] as terminal_size() reports them
    words,            \* Game.words
    text,             \* Game.text: the wrapped lines (Vec<Text>)
    input,            \* run: the typed buffer (Vec<char>)
    num_errors,       \* run: lifetime mistake counter
    num_chars_typed,  \* run: lifetime character counter
    status,           \* run: the TestStatus of the last process_key
    keys_read,        \* run: number of keys handed to process_key in this run
    last_key,         \* history: the last key read in this run (test or results page)
    on_scenario,      \* history: the keys read in this run are a prefix of Scenario
    results,          \* the GameResults of the last ended run
    run_no,           \* number of runs started (main's loop)
    cp,               \* cursor specification: a CursorPos on its own
    wrap,             \* layout specification: inputs and outcome of display_words
    mk                \* Markov specification: tokens, table and walk

vars == <<phase, tui, term, words, text, input, num_errors, num_chars_typed,
          status, keys_read, last_key, on_scenario, results, run_no, cp, wrap, mk>>

gameVars == <<phase, tui, term, words, text, input, num_errors, num_chars_typed,
              status, keys_read, last_key, on_scenario, results, run_no>>

-----------------------------------------------------------------------------
(* Bounds of the model *)

MaxLines == 3          \* cursor specification: lines per CursorPos
MaxLineLen == 3        \* cursor specification: characters per line
MaxWrapWords == 3      \* layout specification: words per free word sequence
MaxRepeat == 12        \* layout specification: longest run of one-letter words
LongWordLen == 20      \* length of the long word (40% of 50 columns)
MidWordLen == 9        \* length of the medium word
MaxKeys == 5           \* keys read per run
MaxRuns == 2           \* runs per behaviour
MaxTokens == 6         \* Markov specification: corpus length
MaxGenTokens == 5      \* generation specification: corpus length
MaxGenWords == 3       \* generation specification: words asked of generate_text

(* Program constants *)

MIN_LINE_WIDTH == 50
MAX_WORDS_PER_LINE == 10

-----------------------------------------------------------------------------
(* Small helpers *)

Max(a, b) == IF a >= b THEN a ELSE b

Repeat(c, n) == [i \in 1..n |-> c]

RECURSIVE SumSeq(_)
SumSeq(s) == IF s = <<>> THEN 0 ELSE Head(s) + SumSeq(Tail(s))

RECURSIVE Flatten(_)
Flatten(ss) == IF ss = <<>> THEN <<>> ELSE Head(ss) \o Flatten(Tail(ss))

\* Vec<String>::join(" ")
RECURSIVE Join(_)
Join(ws) ==
    IF ws = <<>> THEN <<>>
    ELSE IF Len(ws) = 1 THEN Head(ws)
    ELSE Head(ws) \o <<" ">> \o Join(Tail(ws))

-----------------------------------------------------------------------------
(* text.rs: Text *)

\* Text::new / From<String> / From<char>: the plain text, its length, no styling
TextFrom(s) == [formatted_text |-> s, length |-> Len(s), styling |-> <<>>]

\* with_faint, with_underline, with_color wrap raw_text in one more style and
\* leave formatted_text and length alone
WithFaint(t) == [t EXCEPT !.styling = <<"Faint">> \o @]
WithUnderline(t) == [t EXCEPT !.styling = <<"Underline">> \o @]
WithColor(t, c) == [t EXCEPT !.styling = <<c>> \o @]

\* HasLength for [Text]
LengthOfTexts(ts) == SumSeq([i \in 1..Len(ts) |-> ts[i].length])

-----------------------------------------------------------------------------
(* tui.rs: CursorPos *)

CursorPosNew == [lines |-> <<>>, cur_line |-> 0, cur_char_in_line |-> 0]

\* CursorPos::cur_pos
CurPos(c) ==
    LET line == c.lines[c.cur_line + 1]
    IN  <<line.x + c.cur_char_in_line, line.y>>

\* CursorPos::next with the end-of-line test off by one
CursorNextPastEnd(c) ==
    LET line == c.lines[c.cur_line + 1]
    IN  IF c.cur_char_in_line < line.length
        THEN [c EXCEPT !.cur_char_in_line = @ + 1]
        ELSE IF c.cur_line + 1 < Len(c.lines)
             THEN [c EXCEPT !.cur_line = @ + 1, !.cur_char_in_line = 0]
             ELSE c

\* CursorPos::next wrapping to the first character after the last one
CursorNextWraps(c) ==
    LET line == c.lines[c.cur_line + 1]
        max_chars_index == line.length - 1
    IN  IF c.cur_char_in_line < max_chars_index
        THEN [c EXCEPT !.cur_char_in_line = @ + 1]
        ELSE IF c.cur_line + 1 < Len(c.lines)
             THEN [c EXCEPT !.cur_line = @ + 1, !.cur_char_in_line = 0]
             ELSE [c EXCEPT !.cur_line = 0, !.cur_char_in_line = 0]

\* CursorPos::next: the state it leaves
CursorNext(c) ==
    LET line == c.lines[c.cur_line + 1]
        max_chars_index == line.length - 1
    IN  IF c.cur_char_in_line < max_chars_index
        THEN [c EXCEPT !.cur_char_in_line = @ + 1]
        ELSE IF c.cur_line + 1 < Len(c.lines)
             THEN [c EXCEPT !.cur_line = @ + 1, !.cur_char_in_line = 0]
             ELSE c

\* CursorPos::prev landing on offset 0 of the previous line
CursorPrevLineStart(c) ==
    IF c.cur_char_in_line > 0
    THEN [c EXCEPT !.cur_char_in_line = @ - 1]
    ELSE IF c.cur_line > 0
         THEN [c EXCEPT !.cur_line = @ - 1, !.cur_char_in_line = 0]
         ELSE c

\* CursorPos::prev: the state it leaves
CursorPrev(c) ==
    IF c.cur_char_in_line > 0
    THEN [c EXCEPT !.cur_char_in_line = @ - 1]
    ELSE IF c.cur_line > 0
         THEN [c EXCEPT !.cur_line = @ - 1,
                        !.cur_char_in_line = c.lines[c.cur_line].length - 1]
         ELSE c

-----------------------------------------------------------------------------
(* tui.rs: GameTui.  The record holds the struct's fields (cursor_pos,       *)
(* track_lines, bottom_lines_len) and the terminal behind stdout: tcur is   *)
(* the terminal's cursor <<x, y>>, style the styling of every glyph of the  *)
(* wrapped text now on screen (in stream order, <<>> when none is shown),   *)
(* footer the number of footer lines on screen, results_page whether the    *)
(* results are shown.                                                        *)

\* GameTui::new
GameTuiNew ==
    [cursor_pos |-> CursorPosNew, track_lines |-> FALSE, bottom_lines_len |-> 0,
     tcur |-> <<1, 1>>, style |-> <<>>, footer |-> 0, results_page |-> FALSE]

\* GameTui::reset
Reset(t) == [t EXCEPT !.cursor_pos = CursorPosNew]

\* cursor::Left(n): the terminal stops at its first column
Left(t, n) == [t EXCEPT !.tcur = <<Max(1, t.tcur[1] - n), t.tcur[2]>>]

\* cursor::Goto(x, y)
Goto(t, xy) == [t EXCEPT !.tcur = xy]

\* GameTui::reset_screen: clear::All, the cursor to the middle of the screen
ResetScreen(t, size) ==
    [t EXCEPT !.style = <<>>, !.footer = 0, !.results_page = FALSE,
              !.tcur = <<size.w \div 2, size.h \div 2>>]

\* index (from 1) into the text stream of the glyph shown at screen cell xy,
\* 0 if no glyph of the wrapped text is shown there
GlyphAt(t, xy) ==
    LET ls == t.cursor_pos.lines
        hit == {l \in 1..Len(ls) :
                  /\ ls[l].y = xy[2]
                  /\ ls[l].x <= xy[1]
                  /\ xy[1] < ls[l].x + ls[l].length}
    IN  IF hit = {} THEN 0
        ELSE LET l == CHOOSE l \in hit : \A m \in hit : l <= m
                 i == SumSeq([k \in 1..(l - 1) |-> ls[k].length]) + (xy[1] - ls[l].x) + 1
             IN  IF i <= Len(t.style) THEN i ELSE 0

\* GameTui::display_raw_text of a one-character Text: the glyph under the
\* terminal cursor takes the Text's styling and the terminal cursor moves on
DisplayRawText(t, txt) ==
    LET i == GlyphAt(t, t.tcur)
        restyled == IF i = 0 THEN t ELSE [t EXCEPT !.style[i] = txt.styling]
    IN  [restyled EXCEPT !.tcur = <<t.tcur[1] + txt.length, t.tcur[2]>>]

\* GameTui::display_a_line_raw: centre the line on the terminal cursor, record
\* its LinePos when track_lines is set, write it, return to its first cell
DisplayALineRaw(t, texts) ==
    LET len == LengthOfTexts(texts)
        t1 == Left(t, len \div 2)
        t2 == IF t1.track_lines
              THEN [t1 EXCEPT !.cursor_pos.lines =
                        Append(@, [x |-> t1.tcur[1], y |-> t1.tcur[2], length |-> len]),
                              !.style = @ \o Flatten([k \in 1..Len(texts) |->
                                             Repeat(texts[k].styling, texts[k].length)])]
              ELSE t1
    IN  t2

\* GameTui::display_lines from line number line_no (from 0) on
RECURSIVE DisplayLinesFrom(_, _, _, _)
DisplayLinesFrom(t, lines, size, line_no) ==
    IF line_no >= Len(lines) THEN t
    ELSE LET line_offset == Len(lines) \div 2
             t1 == Goto(t, <<size.w \div 2, size.h \div 2 + line_no - line_offset>>)
         IN  DisplayLinesFrom(DisplayALineRaw(t1, lines[line_no + 1]), lines, size, line_no + 1)

\* GameTui::display_lines
DisplayLines(t, lines, size) == DisplayLinesFrom(t, lines, size, 0)

\* the u16 row of footer line line_no in display_lines_bottom
BottomRow(size, n, line_no) == (size.h - 1 + line_no - n) % 65536

\* display_lines_bottom's row arithmetic leaves u16: sizey - 1 + line_no - line_offset
BottomRowOverflows(size, n) ==
    \E line_no \in 0..(n - 1) : size.h - 1 < 0 \/ size.h - 1 + line_no - n < 0

RECURSIVE DisplayLinesBottomFrom(_, _, _, _)
DisplayLinesBottomFrom(t, lines, size, line_no) ==
    IF line_no >= Len(lines) THEN t
    ELSE LET t1 == Goto(t, <<size.w \div 2, BottomRow(size, Len(lines), line_no)>>)
         IN  DisplayLinesBottomFrom(DisplayALineRaw(t1, lines[line_no + 1]),
                                    lines, size, line_no + 1)

\* GameTui::display_lines_bottom (when its row arithmetic does not panic)
DisplayLinesBottom(t, lines, size) ==
    LET t1 == [t EXCEPT !.bottom_lines_len = Len(lines)]
        t2 == DisplayLinesBottomFrom(t1, lines, size, 0)
    IN  [t2 EXCEPT !.footer = Len(lines)]

\* GameTui::move_to_cur_pos
MoveToCurPos(t) == Goto(t, CurPos(t.cursor_pos))

\* GameTui::move_to_next_char
MoveToNextChar(t) ==
    LET c == CursorNext(t.cursor_pos)
    IN  Goto([t EXCEPT !.cursor_pos = c], CurPos(c))

\* GameTui::move_to_prev_char
MoveToPrevChar(t) ==
    LET c == CursorPrev(t.cursor_pos)
    IN  Goto([t EXCEPT !.cursor_pos = c], CurPos(c))

\* GameTui::replace_text writing at the cursor without stepping back
ReplaceTextStays(t, txt) == MoveToCurPos(DisplayRawText(t, txt))

\* GameTui::replace_text
ReplaceText(t, txt) == MoveToCurPos(DisplayRawText(MoveToPrevChar(t), txt))

-----------------------------------------------------------------------------
(* tui.rs: GameTui::display_words *)

\* the loop's locals before the first word
WrapStart == [line |-> <<>>, lines |-> <<>>, current_len |-> 0, max_word_len |-> 0]

\* one iteration of the loop over words with the word cap tested by <=
WrapWordCapOffByOne(st, word, max_width) ==
    LET new_len == st.current_len + Len(word) + 1
        m == Max(st.max_word_len, Len(word) + 1)
    IN  IF Len(st.line) <= MAX_WORDS_PER_LINE /\ new_len <= max_width
        THEN [st EXCEPT !.max_word_len = m,
                        !.line = Append(@, word),
                        !.current_len = @ + Len(word) + 1]
        ELSE [st EXCEPT !.max_word_len = m,
                        !.lines = Append(@, WithFaint(TextFrom(Join(st.line) \o <<" ">>))),
                        !.line = <<word>>,
                        !.current_len = Len(word) + 1]

\* one iteration of the loop over words with the width tested before the word is added
WrapWordWidthBeforeAdd(st, word, max_width) ==
    LET m == Max(st.max_word_len, Len(word) + 1)
    IN  IF Len(st.line) < MAX_WORDS_PER_LINE /\ st.current_len <= max_width
        THEN [st EXCEPT !.max_word_len = m,
                        !.line = Append(@, word),
                        !.current_len = @ + Len(word) + 1]
        ELSE [st EXCEPT !.max_word_len = m,
                        !.lines = Append(@, WithFaint(TextFrom(Join(st.line) \o <<" ">>))),
                        !.line = <<word>>,
                        !.current_len = Len(word) + 1]

\* one iteration of the loop over words
WrapWord(st, word, max_width) ==
    LET new_len == st.current_len + Len(word) + 1
        m == Max(st.max_word_len, Len(word) + 1)
    IN  IF Len(st.line) < MAX_WORDS_PER_LINE /\ new_len <= max_width
        THEN \* add to line
             [st EXCEPT !.max_word_len = m,
                        !.line = Append(@, word),
                        !.current_len = @ + Len(word) + 1]
        ELSE \* close the line with an extra space, start the next with word
             [st EXCEPT !.max_word_len = m,
                        !.lines = Append(@, WithFaint(TextFrom(Join(st.line) \o <<" ">>))),
                        !.line = <<word>>,
                        !.current_len = Len(word) + 1]

RECURSIVE WrapFrom(_, _, _, _)
WrapFrom(st, ws, i, max_width) ==
    IF i > Len(ws) THEN st
    ELSE WrapFrom(WrapWord(st, ws[i], max_width), ws, i + 1, max_width)

\* the lines and max_word_len display_words has after its loop and the push of
\* the last line; max_width is 40% of the terminal width
WrapLines(ws, terminal_width) ==
    LET max_width == (terminal_width * 2) \div 5
        st == WrapFrom(WrapStart, ws, 1, max_width)
    IN  [lines |-> Append(st.lines, WithFaint(TextFrom(Join(st.line)))),
         max_word_len |-> st.max_word_len]

\* the validation of display_words: which error it returns, "none" if it goes on
LayoutError(t, wl, size) ==
    LET max_word_len == Max(wl.max_word_len + 1, MIN_LINE_WIDTH)
    IN  IF Len(wl.lines) + t.bottom_lines_len + 2 > size.h THEN "height"
        ELSE IF max_word_len > size.w THEN "width"
        ELSE "none"

\* display_words that draws the lines before it validates the layout
DisplayWordsDrawFirst(t, ws, size) ==
    LET t0 == Reset(t)
        wl == WrapLines(ws, size.w)
        err == LayoutError(t0, wl, size)
        t1 == DisplayLines([t0 EXCEPT !.track_lines = TRUE],
                           [k \in 1..Len(wl.lines) |-> <<wl.lines[k]>>], size)
        t2 == [t1 EXCEPT !.track_lines = FALSE]
    IN  IF err # "none"
        THEN [tui |-> t2, err |-> err, lines |-> <<>>]
        ELSE [tui |-> MoveToCurPos(t2), err |-> "none", lines |-> wl.lines]

\* GameTui::display_words: the GameTui it leaves, the error it returns ("none"
\* for Ok) and the lines it returns
DisplayWords(t, ws, size) ==
    LET t0 == Reset(t)
        wl == WrapLines(ws, size.w)
        err == LayoutError(t0, wl, size)
    IN  IF err # "none"
        THEN [tui |-> t0, err |-> err, lines |-> <<>>]
        ELSE LET t1 == DisplayLines([t0 EXCEPT !.track_lines = TRUE],
                                    [k \in 1..Len(wl.lines) |-> <<wl.lines[k]>>], size)
                 t2 == [t1 EXCEPT !.track_lines = FALSE]
             IN  [tui |-> MoveToCurPos(t2), err |-> "none", lines |-> wl.lines]

-----------------------------------------------------------------------------
(* lib.rs: Game::run, the results *)

\* the zip/fold over (typed, original) pairs counting a mismatch as correct too
FoldResultsCountsAll(inp, orig) ==
    LET n == IF Len(inp) <= Len(orig) THEN Len(inp) ELSE Len(orig)
    IN  [final_chars_typed_correctly |-> n,
         final_uncorrected_errors |-> Cardinality({i \in 1..n : inp[i] # orig[i]})]

\* the zip/fold over (typed, original) pairs: only the common prefix is compared
FoldResults(inp, orig) ==
    LET n == IF Len(inp) <= Len(orig) THEN Len(inp) ELSE Len(orig)
    IN  [final_chars_typed_correctly |-> Cardinality({i \in 1..n : inp[i] = orig[i]}),
         final_uncorrected_errors |-> Cardinality({i \in 1..n : inp[i] # orig[i]})]

\* the GameResults built at the end of run (the two timestamps left out)
MakeResults(ws, inp, orig, chars_typed, errors) ==
    LET f == FoldResults(inp, orig)
    IN  [total_words |-> Len(ws),
         total_chars_typed |-> chars_typed,
         total_chars_in_text |-> Len(inp),
         total_char_errors |-> errors,
         final_chars_typed_correctly |-> f.final_chars_typed_correctly,
         final_uncorrected_errors |-> f.final_uncorrected_errors]

NoResults == MakeResults(<<>>, <<>>, <<>>, 0, 0)

\* GameResults::accuracy as the fraction num/den:
\* final_chars_typed_correctly / total_chars_in_text, zero when nothing was typed
Accuracy(r) ==
    IF r.total_chars_in_text = 0
    THEN [num |-> 0, den |-> 1]
    ELSE [num |-> r.final_chars_typed_correctly, den |-> r.total_chars_in_text]

-----------------------------------------------------------------------------
(* Inputs of the game *)

LongWord == Repeat("a", LongWordLen)
MidWord == Repeat("b", MidWordLen)

\* the terminal sizes terminal_size() may report
TermWidths == {49, 50}
TermHeights == {1, 2, 4, 5}
TermSizes == [w : TermWidths, h : TermHeights]

\* the word sequences generate_text may hand to a run: non-empty, every word a
\* non-empty token without whitespace
GameWordSeqs == { <<<<"a", "b", "c">>>>, <<<<"a", "b">>, <<"c">>>>, <<LongWord>> }

\* the characters a Key::Char may carry when the next character of the text is
\* expected (none past its end): that character, a space, and "x" for every
\* other character, all of which process_key treats alike
TypedChars(expected) == expected \cup {"x", " "}

KeyChar(c) == [kind |-> "Char", c |-> c]
KeyCtrl(c) == [kind |-> "Ctrl", c |-> c]
KeyBackspace == [kind |-> "Backspace", c |-> ""]
KeyLeft == [kind |-> "Left", c |-> ""]
\* keys process_key has no arm for
OtherKeys == { KeyLeft, KeyCtrl("x") }
NoKey == [kind |-> "None", c |-> ""]

\* the footer of the test page: four Texts on one line
FooterLine ==
    << WithColor(TextFrom(<<"c", "t", "r", "l", "-", "r">>), "Blue"),
       WithFaint(TextFrom(<<" ", "t", "o", " ", "r", "e", "s", "t", "a", "r", "t", ",", " ">>)),
       WithColor(TextFrom(<<"c", "t", "r", "l", "-", "c">>), "Blue"),
       WithFaint(TextFrom(<<" ", "t", "o", " ", "a", "b", "o", "r", "t">>)) >>

\* the scenario of the specification: a, b, x, backspace, c typed against "abc"
Scenario == <<KeyChar("a"), KeyChar("b"), KeyChar("x"), KeyBackspace, KeyChar("c")>>
ScenarioWords == <<<<"a", "b", "c">>>>

\* run: original_text, the characters of all lines of Game.text
OriginalText == Flatten([i \in 1..Len(text) |-> text[i].formatted_text])

-----------------------------------------------------------------------------
(* The state of the variables a specification does not use *)

CpIdle == [c |-> CursorPosNew, last |-> "none"]
WrapIdle == [words |-> <<>>, size |-> [w |-> 0, h |-> 0], bottom_lines_len |-> 0,
             done |-> FALSE, wrapped |-> <<>>, out |-> [tui |-> GameTuiNew, err |-> "none", lines |-> <<>>]]
MkIdle == [pc |-> "idle", tokens |-> <<>>, cache |-> [k \in {} |-> <<>>],
           num_words |-> 0, first_word |-> <<>>, second_word |-> <<>>,
           output |-> <<>>, i |-> 0, early |-> FALSE]

\* Game { tui: GameTui::new(), words: Vec::new(), text: Vec::new() } in
\* Game::new, before its call of restart
GameNew ==
    /\ phase = "new"
    /\ tui = GameTuiNew
    /\ words = <<>>
    /\ text = <<>>
    /\ input = <<>>
    /\ num_errors = 0
    /\ num_chars_typed = 0
    /\ status = "NotDone"
    /\ keys_read = 0
    /\ last_key = NoKey
    /\ on_scenario = TRUE
    /\ results = NoResults
    /\ run_no = 0

-----------------------------------------------------------------------------
(* The cursor specification: a CursorPos over any list of lines of length  *)
(* >= 1, driven by any sequence of next and prev calls.                    *)

\* the line lists display_lines can record: line k on row k, each length >= 1
CursorLineLists ==
    UNION { [1..n -> 1..MaxLineLen] : n \in 1..MaxLines }

InitCursor ==
    /\ GameNew
    /\ term = [w |-> 0, h |-> 0]
    /\ wrap = WrapIdle
    /\ mk = MkIdle
    /\ \E lens \in CursorLineLists :
          cp = [c |-> [lines |-> [k \in 1..Len(lens) |->
                                     [x |-> 1, y |-> k, length |-> lens[k]]],
                       cur_line |-> 0, cur_char_in_line |-> 0],
                last |-> "none"]

CallNext ==
    /\ cp' = [c |-> CursorNext(cp.c), last |-> "next"]
    /\ UNCHANGED <<gameVars, wrap, mk>>

CallPrev ==
    /\ cp' = [c |-> CursorPrev(cp.c), last |-> "prev"]
    /\ UNCHANGED <<gameVars, wrap, mk>>

NextCursor == CallNext \/ CallPrev

SpecCursor == InitCursor /\ [][NextCursor]_vars

\* the cursor is on the last character of the last line
AtLastChar(c) ==
    /\ c.cur_line + 1 = Len(c.lines)
    /\ c.cur_char_in_line = c.lines[Len(c.lines)].length - 1

\* the cursor is on the first character of the first line
AtFirstChar(c) == c.cur_line = 0 /\ c.cur_char_in_line = 0

\* C4: cursor symmetry: in every cursor state reachable by next/prev over
\* lines of length >= 1, prev undoes next unless the cursor is on the final
\* character of the final line, and next undoes prev unless it is on the
\* first character of the first line.
CursorSymmetry ==
    /\ ~AtLastChar(cp.c) => CursorPrev(CursorNext(cp.c)) = cp.c
    /\ ~AtFirstChar(cp.c) => CursorNext(CursorPrev(cp.c)) = cp.c

\* C4 witness: next has just crossed from the end of a line to the start of the
\* following one, which is not the final character: both halves apply here
CursorSymmetryWitness ==
    /\ cp.last = "next"
    /\ cp.c.cur_line = 1
    /\ cp.c.cur_char_in_line = 0
    /\ ~AtLastChar(cp.c)
    /\ cp.c.lines[1].length > 1

\* C5: cursor bounds: after any sequence of next/prev calls the cursor names
\* an existing line and an offset inside that line's [0, length) range.
CursorInBounds ==
    /\ 0 <= cp.c.cur_line
    /\ cp.c.cur_line < Len(cp.c.lines)
    /\ 0 <= cp.c.cur_char_in_line
    /\ cp.c.cur_char_in_line < cp.c.lines[cp.c.cur_line + 1].length

\* C5 witness: next was called with the cursor clamped on the last character of
\* the last of several lines
CursorInBoundsWitness ==
    /\ cp.last = "next"
    /\ Len(cp.c.lines) > 1
    /\ AtLastChar(cp.c)
    /\ CursorNext(cp.c) = cp.c

-----------------------------------------------------------------------------
(* The layout specification: display_words applied to a word sequence, a   *)
(* terminal size and a footer height.                                      *)

WrapVocab == { <<"a">>, <<"b", "c">>, MidWord, LongWord }

\* every word sequence of up to MaxWrapWords words, and runs of one-letter words
WrapWordSeqs ==
    UNION { [1..n -> WrapVocab] : n \in 0..MaxWrapWords }
    \cup { Repeat(<<"a">>, n) : n \in 1..MaxRepeat }

WrapSizes == [w : {10, 55} \cup TermWidths, h : TermHeights \cup {8}]

InitWrap ==
    /\ GameNew
    /\ term = [w |-> 0, h |-> 0]
    /\ cp = CpIdle
    /\ mk = MkIdle
    /\ \E ws \in WrapWordSeqs, size \in WrapSizes, b \in 0..1 :
          wrap = [WrapIdle EXCEPT !.words = ws, !.size = size, !.bottom_lines_len = b]

\* display_words on a GameTui whose footer has wrap.bottom_lines_len lines;
\* wrapped is its local lines as it stands before the validation
CallDisplayWords ==
    /\ ~wrap.done
    /\ wrap' = [wrap EXCEPT
                  !.done = TRUE,
                  !.wrapped = WrapLines(wrap.words, wrap.size.w).lines,
                  !.out = DisplayWords([GameTuiNew EXCEPT
                                           !.bottom_lines_len = wrap.bottom_lines_len,
                                           !.footer = wrap.bottom_lines_len],
                                       wrap.words, wrap.size)]
    /\ UNCHANGED <<gameVars, cp, mk>>

NextWrap == CallDisplayWords

SpecWrap == InitWrap /\ [][NextWrap]_vars

\* str.split(' ') without the empty pieces: the words of a line's text
RECURSIVE SplitWords(_, _)
SplitWords(chars, cur) ==
    IF chars = <<>>
    THEN IF cur = <<>> THEN <<>> ELSE <<cur>>
    ELSE IF Head(chars) = " "
         THEN (IF cur = <<>> THEN <<>> ELSE <<cur>>) \o SplitWords(Tail(chars), <<>>)
         ELSE SplitWords(Tail(chars), Append(cur, Head(chars)))

LineWords(line) == SplitWords(line.formatted_text, <<>>)

\* word lengths plus one trailing separator per word
RunningWidth(line) ==
    LET ws == LineWords(line) IN SumSeq([k \in 1..Len(ws) |-> Len(ws[k]) + 1])

MaxLineWidth(size) == (size.w * 2) \div 5

\* C6: wrap word cap and order: for every word sequence and terminal width,
\* every line display_words builds holds at most MAX_WORDS_PER_LINE words, and
\* the words of the lines, in order, are the original word sequence (returned
\* lines are the built ones).
WrapCapAndOrder ==
    wrap.done =>
        /\ \A k \in 1..Len(wrap.wrapped) : Len(LineWords(wrap.wrapped[k])) <= MAX_WORDS_PER_LINE
        /\ Flatten([k \in 1..Len(wrap.wrapped) |-> LineWords(wrap.wrapped[k])]) = wrap.words
        /\ wrap.out.err = "none" => wrap.out.lines = wrap.wrapped

\* C6 witness: display_words returned lines for more than MAX_WORDS_PER_LINE
\* words on a terminal wide enough for them all, and closed a line at the cap
WrapCapAndOrderWitness ==
    /\ wrap.done
    /\ wrap.out.err = "none"
    /\ Len(wrap.words) > MAX_WORDS_PER_LINE
    /\ RunningWidth(WithFaint(TextFrom(Join(wrap.words)))) <= MaxLineWidth(wrap.size)
    /\ Len(LineWords(wrap.out.lines[1])) = MAX_WORDS_PER_LINE

\* C7 as stated: whenever display_words returns lines, no line's running width
\* exceeds 40% of the terminal width.
WrapWidthBound ==
    (wrap.done /\ wrap.out.err = "none") =>
        \A k \in 1..Len(wrap.out.lines) :
            RunningWidth(wrap.out.lines[k]) <= MaxLineWidth(wrap.size)

\* C7 amended: whenever display_words returns lines, every line holding more
\* than one word has a running width of at most 40% of the terminal width; a
\* line may exceed it only by holding a single word that is alone too wide.
WrapWidthBoundMultiWord ==
    (wrap.done /\ wrap.out.err = "none") =>
        \A k \in 1..Len(wrap.out.lines) :
            \/ RunningWidth(wrap.out.lines[k]) <= MaxLineWidth(wrap.size)
            \/ /\ Len(LineWords(wrap.out.lines[k])) = 1
               /\ Len(LineWords(wrap.out.lines[k])[1]) + 1 > MaxLineWidth(wrap.size)

\* C7 witness: display_words returned several lines, one closed because the
\* next word did not fit and one holding a single word wider than the bound
WrapWidthBoundWitness ==
    /\ wrap.done
    /\ wrap.out.err = "none"
    /\ \E k \in 1..Len(wrap.out.lines) :
          /\ Len(LineWords(wrap.out.lines[k])) > 1
          /\ k < Len(wrap.out.lines)
          /\ RunningWidth(wrap.out.lines[k]) + Len(LineWords(wrap.out.lines[k + 1])[1]) + 1
                > MaxLineWidth(wrap.size)
    /\ \E k \in 1..Len(wrap.out.lines) :
          RunningWidth(wrap.out.lines[k]) > MaxLineWidth(wrap.size)

-----------------------------------------------------------------------------
(* lib.rs: process_key.  st holds what the closure mutates: input,         *)
(* num_chars_typed, num_errors and self.tui; the result adds the status.   *)

\* Key::Ctrl('w') popping through spaces, down to the empty buffer
RECURSIVE DeleteLastWordToStart(_, _)
DeleteLastWordToStart(st, original_text) ==
    IF st.input = <<>>
    THEN st
    ELSE LET popped == SubSeq(st.input, 1, Len(st.input) - 1)
         IN  DeleteLastWordToStart(
                 [st EXCEPT !.input = popped,
                            !.tui = ReplaceText(st.tui,
                                        WithFaint(TextFrom(<<original_text[Len(popped) + 1]>>)))],
                 original_text)

\* Key::Ctrl('w'): pop until the buffer is empty or ends with a space
RECURSIVE DeleteLastWord(_, _)
DeleteLastWord(st, original_text) ==
    IF st.input = <<>> \/ st.input[Len(st.input)] = " "
    THEN st
    ELSE LET popped == SubSeq(st.input, 1, Len(st.input) - 1)
         IN  DeleteLastWord(
                 [st EXCEPT !.input = popped,
                            !.tui = ReplaceText(st.tui,
                                        WithFaint(TextFrom(<<original_text[Len(popped) + 1]>>)))],
                 original_text)

\* Key::Char(c) finishing only once the buffer is longer than the text
ProcessCharFinishesLate(st, c, original_text) ==
    LET pushed == Append(st.input, c) IN
    IF Len(pushed) > Len(original_text)
    THEN [st EXCEPT !.input = pushed] @@ [status |-> "Done"]
    ELSE IF original_text[Len(pushed)] = c
         THEN [st EXCEPT !.input = pushed,
                         !.num_chars_typed = @ + 1,
                         !.tui = MoveToNextChar(DisplayRawText(st.tui,
                                     WithColor(TextFrom(<<c>>), "LightGreen")))]
              @@ [status |-> "NotDone"]
         ELSE [st EXCEPT !.input = pushed,
                         !.num_chars_typed = @ + 1,
                         !.tui = MoveToNextChar(DisplayRawText(st.tui,
                                     WithColor(WithUnderline(
                                         TextFrom(<<original_text[Len(pushed)]>>)), "Red"))),
                         !.num_errors = @ + 1]
              @@ [status |-> "NotDone"]

\* Key::Char(c) counting the character before the finish test
ProcessCharCountsFirst(st, c, original_text) ==
    LET pushed == Append(st.input, c) IN
    IF Len(pushed) >= Len(original_text)
    THEN [st EXCEPT !.input = pushed, !.num_chars_typed = @ + 1] @@ [status |-> "Done"]
    ELSE IF original_text[Len(pushed)] = c
         THEN [st EXCEPT !.input = pushed,
                         !.num_chars_typed = @ + 1,
                         !.tui = MoveToNextChar(DisplayRawText(st.tui,
                                     WithColor(TextFrom(<<c>>), "LightGreen")))]
              @@ [status |-> "NotDone"]
         ELSE [st EXCEPT !.input = pushed,
                         !.num_chars_typed = @ + 1,
                         !.tui = MoveToNextChar(DisplayRawText(st.tui,
                                     WithColor(WithUnderline(
                                         TextFrom(<<original_text[Len(pushed)]>>)), "Red"))),
                         !.num_errors = @ + 1]
              @@ [status |-> "NotDone"]

\* Key::Char(c) leaving the cursor where it is after a mismatch
ProcessCharMismatchStays(st, c, original_text) ==
    LET pushed == Append(st.input, c) IN
    IF Len(pushed) >= Len(original_text)
    THEN [st EXCEPT !.input = pushed] @@ [status |-> "Done"]
    ELSE IF original_text[Len(pushed)] = c
         THEN [st EXCEPT !.input = pushed,
                         !.num_chars_typed = @ + 1,
                         !.tui = MoveToNextChar(DisplayRawText(st.tui,
                                     WithColor(TextFrom(<<c>>), "LightGreen")))]
              @@ [status |-> "NotDone"]
         ELSE [st EXCEPT !.input = pushed,
                         !.num_chars_typed = @ + 1,
                         !.tui = MoveToCurPos(DisplayRawText(st.tui,
                                     WithColor(WithUnderline(
                                         TextFrom(<<original_text[Len(pushed)]>>)), "Red"))),
                         !.num_errors = @ + 1]
              @@ [status |-> "NotDone"]

\* Key::Char(c) moving the cursor on before it writes the character
ProcessCharMovesFirst(st, c, original_text) ==
    LET pushed == Append(st.input, c) IN
    IF Len(pushed) >= Len(original_text)
    THEN [st EXCEPT !.input = pushed] @@ [status |-> "Done"]
    ELSE IF original_text[Len(pushed)] = c
         THEN [st EXCEPT !.input = pushed,
                         !.num_chars_typed = @ + 1,
                         !.tui = MoveToCurPos(DisplayRawText(MoveToNextChar(st.tui),
                                     WithColor(TextFrom(<<c>>), "LightGreen")))]
              @@ [status |-> "NotDone"]
         ELSE [st EXCEPT !.input = pushed,
                         !.num_chars_typed = @ + 1,
                         !.tui = MoveToCurPos(DisplayRawText(MoveToNextChar(st.tui),
                                     WithColor(WithUnderline(
                                         TextFrom(<<original_text[Len(pushed)]>>)), "Red"))),
                         !.num_errors = @ + 1]
              @@ [status |-> "NotDone"]

\* Key::Char(c) leaving a mismatch out of num_errors
ProcessCharMismatchUncounted(st, c, original_text) ==
    LET pushed == Append(st.input, c) IN
    IF Len(pushed) >= Len(original_text)
    THEN [st EXCEPT !.input = pushed] @@ [status |-> "Done"]
    ELSE IF original_text[Len(pushed)] = c
         THEN [st EXCEPT !.input = pushed,
                         !.num_chars_typed = @ + 1,
                         !.tui = MoveToNextChar(DisplayRawText(st.tui,
                                     WithColor(TextFrom(<<c>>), "LightGreen")))]
              @@ [status |-> "NotDone"]
         ELSE [st EXCEPT !.input = pushed,
                         !.num_chars_typed = @ + 1,
                         !.tui = MoveToNextChar(DisplayRawText(st.tui,
                                     WithColor(WithUnderline(
                                         TextFrom(<<original_text[Len(pushed)]>>)), "Red")))]
              @@ [status |-> "NotDone"]

\* Key::Char(c)
ProcessChar(st, c, original_text) ==
    LET pushed == Append(st.input, c) IN
    IF Len(pushed) >= Len(original_text)
    THEN [st EXCEPT !.input = pushed] @@ [status |-> "Done"]
    ELSE IF original_text[Len(pushed)] = c
         THEN [st EXCEPT !.input = pushed,
                         !.num_chars_typed = @ + 1,
                         !.tui = MoveToNextChar(DisplayRawText(st.tui,
                                     WithColor(TextFrom(<<c>>), "LightGreen")))]
              @@ [status |-> "NotDone"]
         ELSE [st EXCEPT !.input = pushed,
                         !.num_chars_typed = @ + 1,
                         !.tui = MoveToNextChar(DisplayRawText(st.tui,
                                     WithColor(WithUnderline(
                                         TextFrom(<<original_text[Len(pushed)]>>)), "Red"))),
                         !.num_errors = @ + 1]
              @@ [status |-> "NotDone"]

\* Key::Backspace taking the popped character back out of the counters
ProcessBackspaceUncounts(st, original_text) ==
    IF st.input = <<>> THEN st
    ELSE LET popped == SubSeq(st.input, 1, Len(st.input) - 1)
         IN  [st EXCEPT !.input = popped,
                        !.num_chars_typed = @ - 1,
                        !.num_errors = IF st.input[Len(st.input)] = original_text[Len(st.input)]
                                       THEN @ ELSE @ - 1,
                        !.tui = ReplaceText(st.tui,
                                    WithFaint(TextFrom(<<original_text[Len(popped) + 1]>>)))]

\* Key::Backspace stepping the cursor back without writing the character again
ProcessBackspaceNoRestyle(st, original_text) ==
    IF st.input = <<>> THEN st
    ELSE LET popped == SubSeq(st.input, 1, Len(st.input) - 1)
         IN  [st EXCEPT !.input = popped,
                        !.tui = MoveToPrevChar(st.tui)]

\* Key::Backspace
ProcessBackspace(st, original_text) ==
    IF st.input = <<>> THEN st
    ELSE LET popped == SubSeq(st.input, 1, Len(st.input) - 1)
         IN  [st EXCEPT !.input = popped,
                        !.tui = ReplaceText(st.tui,
                                    WithFaint(TextFrom(<<original_text[Len(popped) + 1]>>)))]

\* process_key whose ctrl-r arm empties the buffer and the counters
ProcessKeyRestartClears(st, key, original_text) ==
    IF key = KeyCtrl("c") THEN st @@ [status |-> "Quit"]
    ELSE IF key = KeyCtrl("r")
    THEN [st EXCEPT !.input = <<>>, !.num_chars_typed = 0, !.num_errors = 0]
         @@ [status |-> "Restart"]
    ELSE IF key = KeyCtrl("w") THEN DeleteLastWord(st, original_text) @@ [status |-> "NotDone"]
    ELSE IF key.kind = "Char" THEN ProcessChar(st, key.c, original_text)
    ELSE IF key = KeyBackspace THEN ProcessBackspace(st, original_text) @@ [status |-> "NotDone"]
    ELSE st @@ [status |-> "NotDone"]

\* process_key whose last arm treats every remaining key as a backspace
ProcessKeyOtherIsBackspace(st, key, original_text) ==
    IF key = KeyCtrl("c") THEN st @@ [status |-> "Quit"]
    ELSE IF key = KeyCtrl("r") THEN st @@ [status |-> "Restart"]
    ELSE IF key = KeyCtrl("w") THEN DeleteLastWord(st, original_text) @@ [status |-> "NotDone"]
    ELSE IF key.kind = "Char" THEN ProcessChar(st, key.c, original_text)
    ELSE IF key = KeyBackspace THEN ProcessBackspace(st, original_text) @@ [status |-> "NotDone"]
    ELSE ProcessBackspace(st, original_text) @@ [status |-> "NotDone"]

\* process_key: the match on the key, then the flush
ProcessKey(st, key, original_text) ==
    IF key = KeyCtrl("c") THEN st @@ [status |-> "Quit"]
    ELSE IF key = KeyCtrl("r") THEN st @@ [status |-> "Restart"]
    ELSE IF key = KeyCtrl("w") THEN DeleteLastWord(st, original_text) @@ [status |-> "NotDone"]
    ELSE IF key.kind = "Char" THEN ProcessChar(st, key.c, original_text)
    ELSE IF key = KeyBackspace THEN ProcessBackspace(st, original_text) @@ [status |-> "NotDone"]
    ELSE st @@ [status |-> "NotDone"]

\* Game::display_results up to its wait for a key: the results page
DisplayResults(t, size) ==
    [DisplayLinesBottom(ResetScreen(t, size), <<FooterLine>>, size)
        EXCEPT !.results_page = TRUE]

-----------------------------------------------------------------------------
(* The game: main's loop over Game::restart and Game::run.                 *)
(* phase is "new" (Game built, restart of Game::new not yet run),          *)
(* "running" (run waits for a key), "results" (display_results waits for a *)
(* key), "restart" (run returned true, main is about to call restart),     *)
(* "exited" (main returned Ok), "error" (restart returned a GameError,     *)
(* main returned it) or "panicked".                                        *)

Init ==
    /\ GameNew
    /\ term \in TermSizes
    /\ cp = CpIdle
    /\ wrap = WrapIdle
    /\ mk = MkIdle

\* Game::restart, from Game::new or from main's loop, and on success the start
\* of the next run up to its first read of a key; main has dropped the results
\* of the run before.  The words are the ones
\* generate_text returns; overflow_checks is the build's choice of panicking
\* or wrapping when display_lines_bottom computes a row below zero.
Restart ==
    /\ phase \in {"new", "restart"}
    /\ run_no < MaxRuns
    /\ \E ws \in GameWordSeqs, overflow_checks \in BOOLEAN :
         LET t1 == ResetScreen(tui, term)
             t2 == DisplayLinesBottom(t1, <<FooterLine>>, term)
             r == DisplayWords(t2, ws, term)
         IN  /\ words' = ws
             /\ IF overflow_checks /\ BottomRowOverflows(term, 1)
                THEN /\ phase' = "panicked"
                     /\ tui' = [t1 EXCEPT !.bottom_lines_len = 1]
                     /\ UNCHANGED <<text, input, num_errors, num_chars_typed, status,
                                    keys_read, last_key, on_scenario, run_no>>
                ELSE IF r.err # "none"
                THEN /\ phase' = "error"
                     /\ tui' = r.tui
                     /\ UNCHANGED <<text, input, num_errors, num_chars_typed, status,
                                    keys_read, last_key, on_scenario, run_no>>
                ELSE /\ phase' = "running"
                     /\ tui' = r.tui
                     /\ text' = r.lines
                     /\ input' = <<>>
                     /\ num_errors' = 0
                     /\ num_chars_typed' = 0
                     /\ status' = "NotDone"
                     /\ keys_read' = 0
                     /\ last_key' = NoKey
                     /\ on_scenario' = TRUE
                     /\ run_no' = run_no + 1
    /\ results' = NoResults
    /\ UNCHANGED <<term, cp, wrap, mk>>

\* run reads one key and hands it to process_key; a status other than NotDone
\* ends the loop: the results are built, display_results shows them after
\* Done, and run returns after Quit and Restart
ReadKey(key) ==
    /\ phase = "running"
    /\ keys_read < MaxKeys
    /\ LET r == ProcessKey([input |-> input, num_chars_typed |-> num_chars_typed,
                            num_errors |-> num_errors, tui |-> tui],
                           key, OriginalText)
       IN  /\ input' = r.input
           /\ num_chars_typed' = r.num_chars_typed
           /\ num_errors' = r.num_errors
           /\ status' = r.status
           /\ tui' = IF r.status = "Done" THEN DisplayResults(r.tui, term) ELSE r.tui
           /\ results' = IF r.status = "NotDone" THEN results
                         ELSE MakeResults(words, r.input, OriginalText,
                                          r.num_chars_typed, r.num_errors)
           /\ phase' = CASE r.status = "NotDone" -> "running"
                         [] r.status = "Done" -> "results"
                         [] r.status = "Quit" -> "exited"
                         [] r.status = "Restart" -> "restart"
    /\ keys_read' = keys_read + 1
    /\ last_key' = key
    /\ on_scenario' = (/\ on_scenario
                       /\ keys_read < Len(Scenario)
                       /\ Scenario[keys_read + 1] = key)
    /\ UNCHANGED <<term, words, text, run_no, cp, wrap, mk>>

PressCtrlC == ReadKey(KeyCtrl("c"))
PressCtrlR == ReadKey(KeyCtrl("r"))
PressCtrlW == ReadKey(KeyCtrl("w"))
PressChar ==
    \E c \in TypedChars({OriginalText[i] : i \in {Len(input) + 1} \cap DOMAIN OriginalText}) :
        ReadKey(KeyChar(c))
PressBackspace == ReadKey(KeyBackspace)
PressOther == \E key \in OtherKeys : ReadKey(key)

\* stdin ends: the for loop over keys ends with the status NotDone, run
\* returns (false, results) and main leaves its loop; before the first key
\* keys.next().unwrap() panics
StdinEnds ==
    /\ phase = "running"
    /\ IF keys_read = 0
       THEN phase' = "panicked" /\ UNCHANGED results
       ELSE /\ phase' = "exited"
            /\ results' = MakeResults(words, input, OriginalText, num_chars_typed, num_errors)
    /\ UNCHANGED <<tui, term, words, text, input, num_errors, num_chars_typed, status,
                   keys_read, last_key, on_scenario, run_no, cp, wrap, mk>>

\* display_results: ctrl-r restarts
ResultsCtrlR ==
    /\ phase = "results"
    /\ phase' = "restart"
    /\ last_key' = KeyCtrl("r")
    /\ UNCHANGED <<tui, term, words, text, input, num_errors, num_chars_typed, status,
                   keys_read, on_scenario, results, run_no, cp, wrap, mk>>

\* display_results: ctrl-c taken for the restart signal
ResultsCtrlCRestarts ==
    /\ phase = "results"
    /\ phase' = "restart"
    /\ last_key' = KeyCtrl("c")
    /\ UNCHANGED <<tui, term, words, text, input, num_errors, num_chars_typed, status,
                   keys_read, on_scenario, results, run_no, cp, wrap, mk>>

\* display_results: ctrl-c quits
ResultsCtrlC ==
    /\ phase = "results"
    /\ phase' = "exited"
    /\ last_key' = KeyCtrl("c")
    /\ UNCHANGED <<tui, term, words, text, input, num_errors, num_chars_typed, status,
                   keys_read, on_scenario, results, run_no, cp, wrap, mk>>

\* display_results: any other key is skipped
ResultsOtherKey ==
    /\ phase = "results"
    /\ \E key \in OtherKeys \cup {KeyChar("r"), KeyBackspace} : last_key' = key
    /\ UNCHANGED <<phase, tui, term, words, text, input, num_errors, num_chars_typed, status,
                   keys_read, on_scenario, results, run_no, cp, wrap, mk>>

Next ==
    \/ Restart
    \/ PressCtrlC
    \/ PressCtrlR
    \/ PressCtrlW
    \/ PressChar
    \/ PressBackspace
    \/ PressOther
    \/ StdinEnds
    \/ ResultsCtrlR
    \/ ResultsCtrlC
    \/ ResultsOtherKey

Spec == Init /\ [][Next]_vars

TypeOK ==
    /\ phase \in {"new", "running", "results", "restart", "exited", "error", "panicked"}
    /\ status \in {"NotDone", "Done", "Quit", "Restart"}
    /\ keys_read \in 0..MaxKeys
    /\ run_no \in 0..MaxRuns

-----------------------------------------------------------------------------
(* Claims about the run *)

\* the step is run reading one key and process_key handling it
KeyStep == phase = "running" /\ keys_read' = keys_read + 1

\* C1: finish boundary: process_key returns Done on a keystroke exactly when
\* the keystroke is a character whose push brings the buffer, until then
\* shorter than the text, to the length of the text; the buffer is then exactly
\* as long as the text, and the finishing keystroke changes neither counter
\* and leaves the cursor where it was.
FinishBoundary ==
    [][KeyStep =>
        /\ Len(input) < Len(OriginalText)
        /\ (status' = "Done") <=>
              (/\ last_key'.kind = "Char"
               /\ input' = Append(input, last_key'.c)
               /\ Len(input') = Len(OriginalText))
        /\ (status' = "Done") =>
              (/\ Len(input') = Len(OriginalText)
               /\ num_chars_typed' = num_chars_typed
               /\ num_errors' = num_errors
               /\ tui'.cursor_pos = tui.cursor_pos)]_vars

\* C1 witness: a run finished by a character key after a correction, the
\* counters holding only the keys before the finishing one
FinishBoundaryWitness ==
    /\ phase = "results"
    /\ status = "Done"
    /\ last_key.kind = "Char"
    /\ Len(input) = Len(OriginalText)
    /\ num_chars_typed = Len(input)
    /\ num_errors = 1

\* the keys of Scenario were fed to a run over "abc": the run read them in
\* order until it ended or they ran out
ScenarioFed ==
    /\ words = ScenarioWords
    /\ OriginalText = <<"a", "b", "c">>
    /\ phase \in {"running", "results", "restart", "exited"}
    /\ on_scenario
    /\ keys_read > 0
    /\ status # "NotDone" \/ keys_read = Len(Scenario)

ScenarioResults == MakeResults(words, input, OriginalText, num_chars_typed, num_errors)

\* C2 as stated: feeding a, b, x, backspace, c to a run over "abc" gives
\* chars_typed = 4, errors = 1, the buffer "abc", 3 characters typed correctly
\* and an accuracy of 1.
ScenarioAsSpecified ==
    ScenarioFed =>
        /\ num_chars_typed = 4
        /\ num_errors = 1
        /\ input = <<"a", "b", "c">>
        /\ ScenarioResults.final_chars_typed_correctly = 3
        /\ Accuracy(ScenarioResults).num = Accuracy(ScenarioResults).den

\* C2 amended: feeding a, b, x, backspace, c to a run over "abc" finishes the
\* run on the third key, x, so backspace and c are never read: chars_typed = 2,
\* errors = 0, the buffer is "abx", 2 characters are typed correctly, 1 error
\* is uncorrected and the accuracy is 2/3.
ScenarioFinishesOnThirdKey ==
    ScenarioFed =>
        /\ keys_read = 3
        /\ status = "Done"
        /\ num_chars_typed = 2
        /\ num_errors = 0
        /\ input = <<"a", "b", "x">>
        /\ results = ScenarioResults
        /\ results.final_chars_typed_correctly = 3 - 1
        /\ results.final_uncorrected_errors = 1
        /\ Accuracy(results) = [num |-> 2, den |-> 3]

\* C2 witness: the scenario's keys were fed and its run is over
ScenarioWitness ==
    /\ ScenarioFed
    /\ last_key = KeyChar("x")
    /\ phase = "results"

\* C3: counter monotonicity: within one run no step makes num_chars_typed or
\* num_errors smaller.
CountersMonotonic ==
    [][run_no' = run_no =>
        /\ num_chars_typed' >= num_chars_typed
        /\ num_errors' >= num_errors]_vars

\* C3 witness: a mistyped character has been taken back by a backspace and the
\* counters still count it
CountersMonotonicWitness ==
    /\ phase = "running"
    /\ last_key = KeyBackspace
    /\ input = <<>>
    /\ num_chars_typed = 1
    /\ num_errors = 1

\* the wrapped line count plus the footer lines exceeds the terminal height
HeightExceeded ==
    Len(WrapLines(words, term.w).lines) + tui.bottom_lines_len > term.h

\* restart has called display_words on the current words
DisplayWordsCalled == phase \notin {"new", "panicked"}

AccuracyBounds ==
    (status = "Done" /\ phase = "results") =>
        LET a == Accuracy(results) IN
        /\ a.den > 0
        /\ 0 <= a.num
        /\ a.num <= a.den
        /\ (a.num = a.den) <=> (results.final_uncorrected_errors = 0)

\* C9 witness: a finished run whose last character is wrong, after a mistake
\* that was corrected
AccuracyBoundsWitness ==
    /\ status = "Done"
    /\ phase = "results"
    /\ results.total_char_errors = 1
    /\ results.final_uncorrected_errors = 1
    /\ Accuracy(results).num = 2

-----------------------------------------------------------------------------
(* markov.rs: create_cache.  The HashMap is a function from keys (strings) *)
(* to lists of tokens.                                                     *)

EmptyCache == [k \in {} |-> <<>>]

\* format!("{} {}", first, second)
CacheKey(first, second) == first \o <<" ">> \o second

\* the body of the loop for index i (from 0), replacing the list of a key
\* already present instead of pushing to it
CacheStepOverwrites(cache, tokens, i) ==
    LET first == tokens[i + 1]
        second == tokens[i + 2]
        item == tokens[i + 3]
        key == CacheKey(first, second)
    IN  IF key \notin DOMAIN cache
        THEN [k \in DOMAIN cache \cup {key} |-> IF k = key THEN <<item>> ELSE cache[k]]
        ELSE [cache EXCEPT ![key] = <<item>>]

\* the body of the loop for index i (from 0)
CacheStep(cache, tokens, i) ==
    LET first == tokens[i + 1]
        second == tokens[i + 2]
        item == tokens[i + 3]
        key == CacheKey(first, second)
    IN  IF key \notin DOMAIN cache
        THEN [k \in DOMAIN cache \cup {key} |-> IF k = key THEN <<item>> ELSE cache[k]]
        ELSE [cache EXCEPT ![key] = Append(@, item)]

\* for i in i..tokens.len() - 2
RECURSIVE CreateCacheFrom(_, _, _)
CreateCacheFrom(cache, tokens, i) ==
    IF i >= Len(tokens) - 2 THEN cache
    ELSE CreateCacheFrom(CacheStep(cache, tokens, i), tokens, i + 1)

\* create_cache panics: tokens.len() - 2 leaves usize with fewer than two
\* tokens (overflow check, or an index past the end once the range wrapped)
CreateCachePanics(tokens) == Len(tokens) < 2

\* create_cache when it returns
CreateCache(tokens) == CreateCacheFrom(EmptyCache, tokens, 0)

-----------------------------------------------------------------------------
(* The Markov specification: create_cache applied to a corpus of tokens    *)

MarkovVocab == { <<"a">>, <<"b">>, <<"c">>, <<"d">> }

Corpora == UNION { [1..n -> MarkovVocab] : n \in 0..MaxTokens }

InitMarkov ==
    /\ GameNew
    /\ term = [w |-> 0, h |-> 0]
    /\ cp = CpIdle
    /\ wrap = WrapIdle
    /\ \E tokens \in Corpora : mk = [MkIdle EXCEPT !.pc = "tokens", !.tokens = tokens]

CallCreateCache ==
    /\ mk.pc = "tokens"
    /\ mk' = IF CreateCachePanics(mk.tokens)
             THEN [mk EXCEPT !.pc = "panicked"]
             ELSE [mk EXCEPT !.pc = "cached", !.cache = CreateCache(mk.tokens)]
    /\ UNCHANGED <<gameVars, cp, wrap>>

NextMarkov == CallCreateCache

SpecMarkov == InitMarkov /\ [][NextMarkov]_vars

\* the tokens that follow the pair (first, second) in tokens[from..], in order
RECURSIVE FollowersFrom(_, _, _, _)
FollowersFrom(tokens, first, second, from) ==
    IF from + 2 > Len(tokens) THEN <<>>
    ELSE (IF tokens[from] = first /\ tokens[from + 1] = second
          THEN <<tokens[from + 2]>> ELSE <<>>)
         \o FollowersFrom(tokens, first, second, from + 1)

ExampleCorpus == << <<"a">>, <<"b">>, <<"c">>, <<"a">>, <<"b">>, <<"d">> >>

\* C10: for every token list of three or more tokens the table create_cache
\* builds has as keys exactly the pairs "t[i] t[i+1]" that have a successor,
\* and maps each to the list of all tokens that followed the pair, in corpus
\* order with duplicates kept, so no list is empty; for [a,b,c,a,b,d] it is
\* "a b" -> [c,d], "b c" -> [a], "c a" -> [b].
CacheIsTransitionTable ==
    (mk.pc = "cached" /\ Len(mk.tokens) >= 3) =>
        LET t == mk.tokens
            n == Len(t)
        IN  /\ DOMAIN mk.cache = { CacheKey(t[i], t[i + 1]) : i \in 1..(n - 2) }
            /\ \A i \in 1..(n - 2) :
                  /\ mk.cache[CacheKey(t[i], t[i + 1])] = FollowersFrom(t, t[i], t[i + 1], 1)
                  /\ mk.cache[CacheKey(t[i], t[i + 1])] # <<>>
            /\ t = ExampleCorpus =>
                  /\ DOMAIN mk.cache = { <<"a", " ", "b">>, <<"b", " ", "c">>, <<"c", " ", "a">> }
                  /\ mk.cache[<<"a", " ", "b">>] = << <<"c">>, <<"d">> >>
                  /\ mk.cache[<<"b", " ", "c">>] = << <<"a">> >>
                  /\ mk.cache[<<"c", " ", "a">>] = << <<"b">> >>

\* C10 witness: the table of the example corpus has been built, with a key
\* that was followed twice
CacheIsTransitionTableWitness ==
    /\ mk.pc = "cached"
    /\ mk.tokens = ExampleCorpus
    /\ Len(mk.cache[<<"a", " ", "b">>]) = 2

-----------------------------------------------------------------------------
(* markov.rs: generate_text.  The walk state is kept in mk: num_words,     *)
(* first_word, second_word, output, i (iterations of the loop that ran)    *)
(* and early (the return inside the loop was taken).                       *)

\* seed_key.split(" "): the pieces of s between single spaces, from index k,
\* piece being the characters gathered since the last space
RECURSIVE SplitSpaceFrom(_, _, _)
SplitSpaceFrom(s, k, piece) ==
    IF k > Len(s) THEN <<piece>>
    ELSE IF s[k] = " " THEN <<piece>> \o SplitSpaceFrom(s, k + 1, <<>>)
    ELSE SplitSpaceFrom(s, k + 1, Append(piece, s[k]))

SplitSpace(s) == SplitSpaceFrom(s, 1, <<>>)

\* rng.gen_range(0, keys.len()) panics when the range is empty
SeedPanics(cache) == DOMAIN cache = {}

\* the function up to the loop, with the key the random index selects
SeedWalk(m, num_words, seed_key) ==
    LET wds == SplitSpace(seed_key)
    IN  [m EXCEPT !.pc = "walking", !.num_words = num_words,
                  !.first_word = wds[1], !.second_word = wds[2],
                  !.output = <<>>, !.i = 0, !.early = FALSE]

\* the current two-word context has a list in the table
HasOptions(m) == CacheKey(m.first_word, m.second_word) \in DOMAIN m.cache

Options(m) == m.cache[CacheKey(m.first_word, m.second_word)]

\* the loop runs one time more than num_words
LoopEndsOffByOne(m) == m.i > m.num_words

\* for _ in 0..num_words: the range is exhausted
LoopEnds(m) == m.i >= m.num_words

\* one iteration of the loop that found options and drew the index idx (from 1)
Iterate(m, idx) ==
    [m EXCEPT !.output = Append(m.output, m.first_word),
              !.first_word = m.second_word,
              !.second_word = Options(m)[idx],
              !.i = m.i + 1]

-----------------------------------------------------------------------------
(* The generation specification: create_cache, then generate_text, as      *)
(* Game::restart calls them, over corpora of a small vocabulary            *)

GenVocab == { <<"a">>, <<"b">>, <<"c">> }

GenCorpora == UNION { [1..n -> GenVocab] : n \in 0..MaxGenTokens } \cup { ExampleCorpus }

InitGen ==
    /\ GameNew
    /\ term = [w |-> 0, h |-> 0]
    /\ cp = CpIdle
    /\ wrap = WrapIdle
    /\ \E tokens \in GenCorpora : mk = [MkIdle EXCEPT !.pc = "tokens", !.tokens = tokens]

\* generate_text up to its loop: the seed key is any key of the table
GenSeed ==
    /\ mk.pc = "cached"
    /\ \E num_words \in 0..MaxGenWords :
          IF SeedPanics(mk.cache)
          THEN mk' = [mk EXCEPT !.pc = "panicked", !.num_words = num_words]
          ELSE \E seed_key \in DOMAIN mk.cache : mk' = SeedWalk(mk, num_words, seed_key)
    /\ UNCHANGED <<gameVars, cp, wrap>>

\* one turn of the loop of generate_text, or its end
GenStep ==
    /\ mk.pc = "walking"
    /\ IF LoopEnds(mk)
       THEN mk' = [mk EXCEPT !.pc = "done"]
       ELSE IF ~HasOptions(mk)
       THEN mk' = [mk EXCEPT !.pc = "done", !.early = TRUE]
       ELSE \E idx \in 1..Len(Options(mk)) : mk' = Iterate(mk, idx)
    /\ UNCHANGED <<gameVars, cp, wrap>>

NextGen == CallCreateCache \/ GenSeed \/ GenStep

SpecGen == InitGen /\ [][NextGen]_vars

\* the words the walk has visited: those emitted, then the current context
Walk == mk.output \o <<mk.first_word, mk.second_word>>

CorpusTokens == { mk.tokens[j] : j \in 1..Len(mk.tokens) }

WalkFollowsTable ==
    mk.pc \in {"walking", "done"} =>
        /\ Len(mk.output) <= mk.num_words
        /\ \A j \in 1..Len(mk.output) : mk.output[j] \in CorpusTokens
        /\ CacheKey(Walk[1], Walk[2]) \in DOMAIN mk.cache
        /\ \A j \in 3..Len(Walk) :
              /\ CacheKey(Walk[j - 2], Walk[j - 1]) \in DOMAIN mk.cache
              /\ \E idx \in 1..Len(mk.cache[CacheKey(Walk[j - 2], Walk[j - 1])]) :
                    mk.cache[CacheKey(Walk[j - 2], Walk[j - 1])][idx] = Walk[j]
        /\ mk.pc = "done" =>
              /\ mk.early <=> Len(mk.output) < mk.num_words
              /\ mk.early => ~HasOptions(mk)

\* a walk under way never fails, and it ends the moment its context has no
\* list, with the words emitted so far
WalkStopsAtDeadEnd ==
    mk.pc = "walking" =>
        /\ mk'.pc \in {"walking", "done"}
        /\ (mk'.pc = "done" /\ mk'.output = mk.output /\ mk'.early)
              <=> (Len(mk.output) < mk.num_words /\ ~HasOptions(mk))

\* C11: in every walk of generate_text over a table built from a corpus, at
\* most num_words words are emitted, each emitted word is a corpus token, the
\* first two words of the walk form a key of the table, each later word is an
\* entry of the list of the two words before it, and the walk returns early,
\* with fewer than num_words words and without failing, exactly when its
\* current two-word context has no list.
GenerateTextWalk == []WalkFollowsTable /\ [][WalkStopsAtDeadEnd]_vars

\* C11 witness: a walk over the example corpus that drew the second entry of
\* a list and then returned early at a context without a list
GenerateTextWalkWitness ==
    /\ mk.pc = "done"
    /\ mk.tokens = ExampleCorpus
    /\ mk.early
    /\ mk.output = << <<"a">> >>
    /\ mk.second_word = <<"d">>
    /\ mk.num_words = MaxGenWords

\* C12: a corpus of fewer than three tokens makes create_cache or
\* generate_text fail with a corpus-too-small error value: the two calls
\* never panic on it and never start a walk.
CorpusTooSmallIsAnError ==
    Len(mk.tokens) < 3 => mk.pc \in {"tokens", "cached", "corpus_too_small"}

-----------------------------------------------------------------------------
(* Claims about the keys of a run *)

\* the step leaves the buffer, both counters and the cursor as they were
RunStateKept ==
    /\ input' = input
    /\ num_chars_typed' = num_chars_typed
    /\ num_errors' = num_errors
    /\ tui'.cursor_pos = tui.cursor_pos

QuitAndRestartKeys ==
    KeyStep =>
        /\ last_key' = KeyCtrl("c") => (status' = "Quit" /\ RunStateKept)
        /\ last_key' = KeyCtrl("r") => (status' = "Restart" /\ RunStateKept)

\* the run whose status left NotDone has not returned to main yet
RunEnded == status # "NotDone" /\ phase # "restart"

EndedRunIsFrozen ==
    RunEnded => (RunStateKept /\ status' = status /\ keys_read' = keys_read)

\* C13: in a running test ctrl-c gives the status Quit and ctrl-r the status
\* Restart, leaving buffer, counters and cursor alone; once the status is
\* Done, Quit or Restart it stays, no further key reaches process_key, and
\* buffer, counters and cursor do not change again in that run.
EndedStatusIsAbsorbing == [][QuitAndRestartKeys /\ EndedRunIsFrozen]_vars

\* C13 witness: ctrl-r ended a run with typed characters and a mistake, the
\* cursor off its start
EndedStatusIsAbsorbingWitness ==
    /\ status = "Restart"
    /\ last_key = KeyCtrl("r")
    /\ Len(input) >= 2
    /\ num_errors >= 1
    /\ tui.cursor_pos.cur_char_in_line >= 1

\* the number of characters of the text before the cursor position c
LinearPos(c) == SumSeq([k \in 1..c.cur_line |-> c.lines[k].length]) + c.cur_char_in_line

\* the styling of a character not typed, typed right, typed wrong
DefaultStyle == <<"Faint">>
CorrectStyle == <<"LightGreen">>
IncorrectStyle == <<"Red", "Underline">>

\* the length of the longest prefix of buf that is empty or ends with a space
WordStart(buf) ==
    CHOOSE k \in 0..Len(buf) :
        /\ k = 0 \/ buf[k] = " "
        /\ \A j \in (k + 1)..Len(buf) : buf[j] # " "

\* C14: ctrl-w in a running test leaves as buffer the longest prefix of the
\* buffer that is empty or ends with a space, moves the cursor back by the
\* number of characters popped, across line boundaries, gives every popped
\* position the default style again, and the status stays NotDone.
DeleteWordToLastSpace ==
    [][(KeyStep /\ last_key' = KeyCtrl("w")) =>
          LET k == WordStart(input)
          IN  /\ input' = SubSeq(input, 1, k)
              /\ LinearPos(tui'.cursor_pos) = LinearPos(tui.cursor_pos) - (Len(input) - k)
              /\ tui'.cursor_pos.lines = tui.cursor_pos.lines
              /\ \A i \in (k + 1)..Len(input) : tui'.style[i] = DefaultStyle
              /\ status' = "NotDone"]_vars

\* C14 witness: ctrl-w popped three characters, two on the second line and
\* one on the first, none of them a space
DeleteWordToLastSpaceWitness ==
    /\ phase = "running"
    /\ last_key = KeyCtrl("w")
    /\ keys_read = 4
    /\ num_chars_typed = 3
    /\ input = <<>>
    /\ Len(tui.cursor_pos.lines) = 2
    /\ tui.cursor_pos.cur_line = 0
    /\ \A i \in 1..3 : tui.style[i] = DefaultStyle

\* C15: a character key that does not finish the test is appended to the
\* buffer, raises num_chars_typed by one, raises num_errors by one exactly when
\* it differs from the character of the text at its index, gives that position
\* the style of a correct character on a match and of an incorrect one on a
\* mismatch, and moves the cursor forward by one position either way.
CharKeyCountsAndAdvances ==
    [][(KeyStep /\ last_key'.kind = "Char" /\ status' = "NotDone") =>
          LET c == last_key'.c
              n == Len(input) + 1
          IN  /\ input' = Append(input, c)
              /\ num_chars_typed' = num_chars_typed + 1
              /\ num_errors' = num_errors + (IF c # OriginalText[n] THEN 1 ELSE 0)
              /\ tui'.style[n] = IF c = OriginalText[n] THEN CorrectStyle ELSE IncorrectStyle
              /\ \A i \in DOMAIN tui.style : i # n => tui'.style[i] = tui.style[i]
              /\ LinearPos(tui'.cursor_pos) = LinearPos(tui.cursor_pos) + 1
              /\ tui'.cursor_pos.lines = tui.cursor_pos.lines]_vars

\* C15 witness: a wrong character typed at the only position of the first
\* line, after a right one was typed there and taken back: the cursor is on
\* the second line
CharKeyCountsAndAdvancesWitness ==
    /\ phase = "running"
    /\ last_key = KeyChar("x")
    /\ input = <<"x">>
    /\ num_chars_typed = 2
    /\ num_errors = 1
    /\ tui.style[1] = IncorrectStyle
    /\ Len(tui.cursor_pos.lines) = 2
    /\ tui.cursor_pos.cur_line = 1
    /\ tui.cursor_pos.cur_char_in_line = 0

\* C16: backspace on a non-empty buffer pops one character, gives the
\* position of the new buffer length the default style again and moves the
\* cursor back by one position, to the last offset of the line before when it
\* was at offset 0; on an empty buffer it changes neither buffer nor cursor nor
\* any style; it changes neither counter in both cases.
BackspacePopsOne ==
    [][(KeyStep /\ last_key' = KeyBackspace) =>
          LET c == tui.cursor_pos
              d == tui'.cursor_pos
          IN  /\ num_chars_typed' = num_chars_typed
              /\ num_errors' = num_errors
              /\ status' = "NotDone"
              /\ d.lines = c.lines
              /\ IF input = <<>>
                 THEN /\ input' = <<>>
                      /\ d = c
                      /\ tui'.style = tui.style
                 ELSE /\ input' = SubSeq(input, 1, Len(input) - 1)
                      /\ tui'.style[Len(input') + 1] = DefaultStyle
                      /\ \A i \in DOMAIN tui.style :
                            i # Len(input') + 1 => tui'.style[i] = tui.style[i]
                      /\ LinearPos(d) = LinearPos(c) - 1
                      /\ c.cur_char_in_line > 0 =>
                            /\ d.cur_line = c.cur_line
                            /\ d.cur_char_in_line = c.cur_char_in_line - 1
                      /\ c.cur_char_in_line = 0 =>
                            /\ d.cur_line = c.cur_line - 1
                            /\ d.cur_char_in_line = c.lines[c.cur_line].length - 1]_vars

\* C16 witness: backspace took back a wrong character typed at the only
\* position of the first line, the cursor coming back from the second line
BackspacePopsOneWitness ==
    /\ phase = "running"
    /\ last_key = KeyBackspace
    /\ keys_read = 2
    /\ num_chars_typed = 1
    /\ num_errors = 1
    /\ input = <<>>
    /\ Len(tui.cursor_pos.lines) = 2
    /\ tui.cursor_pos.cur_line = 0
    /\ tui.style[1] = DefaultStyle

-----------------------------------------------------------------------------
(* Claims about main's loop *)

\* main calls restart only after a run that ended with Restart, or with Done
\* and ctrl-r on the results page
RestartOnlyOnRequest ==
    (phase' = "restart" /\ phase # "restart") =>
        \/ phase = "running" /\ status' = "Restart"
        \/ phase = "results" /\ status = "Done" /\ last_key' = KeyCtrl("r")

\* a run that ends with Restart returns to main's restart, one that ends with
\* Quit to main's Ok(())
RunEndReachesMain ==
    KeyStep =>
        /\ status' = "Restart" => phase' = "restart"
        /\ status' = "Quit" => phase' = "exited"

\* the results page: ctrl-r restarts, ctrl-c leaves with Ok(()), every other
\* key changes nothing
ResultsPageKeys ==
    phase = "results" =>
        /\ status = "Done"
        /\ last_key' = KeyCtrl("r") => phase' = "restart"
        /\ last_key' = KeyCtrl("c") => phase' = "exited"
        /\ last_key' \notin {KeyCtrl("r"), KeyCtrl("c")} => phase' = "results"
        /\ UNCHANGED <<tui, term, words, text, input, num_errors, num_chars_typed,
                       status, keys_read, results, run_no>>

\* the run that restart starts: a fresh layout, all of it in the default
\* style, the cursor at its start, an empty buffer and counters at zero
NextRunStartsFresh ==
    (phase = "restart" /\ phase' = "running") =>
        /\ run_no' = run_no + 1
        /\ text' # <<>>
        /\ Len(tui'.cursor_pos.lines) = Len(text')
        /\ \A i \in DOMAIN tui'.style : tui'.style[i] = DefaultStyle
        /\ tui'.cursor_pos.cur_line = 0
        /\ tui'.cursor_pos.cur_char_in_line = 0
        /\ input' = <<>>
        /\ num_chars_typed' = 0
        /\ num_errors' = 0
        /\ status' = "NotDone"

\* main returns Ok(()) only after Quit, after ctrl-c on the results page, or
\* at the end of stdin
ExitOnlyOnQuit ==
    (phase' = "exited" /\ phase # "exited") =>
        \/ phase = "running" /\ status' = "Quit"
        \/ phase = "running" /\ status' = "NotDone" /\ keys_read' = keys_read
        \/ phase = "results" /\ last_key' = KeyCtrl("c")

\* C17: main restarts exactly when the run ended with Restart, or ended with
\* Done and the results page then read ctrl-r, every other key but ctrl-c
\* being skipped there; the restart lays the text out and displays it again, so
\* that the next run starts with the cursor at line 0, offset 0, an empty
\* buffer and both counters at zero; after Quit, or ctrl-c on the results page,
\* main returns Ok(()).
ShellRestartsOnRequest ==
    [][/\ RestartOnlyOnRequest
       /\ RunEndReachesMain
       /\ ResultsPageKeys
       /\ NextRunStartsFresh
       /\ ExitOnlyOnQuit]_vars

\* C17 witness: the second run has started, on a text of two lines
ShellRestartsOnRequestWitness ==
    /\ phase = "running"
    /\ run_no = 2
    /\ keys_read = 0
    /\ Len(text) = 2
    /\ tui.cursor_pos.cur_line = 0
    /\ input = <<>>

\* C18: a key of a running test that is none of ctrl-c, ctrl-r, ctrl-w, a
\* character and backspace leaves the buffer, both counters, the cursor and
\* the style of every character as they were, and the status stays NotDone.
OtherKeyChangesNothing ==
    [][(/\ KeyStep
        /\ last_key' \notin {KeyCtrl("c"), KeyCtrl("r"), KeyCtrl("w"), KeyBackspace}
        /\ last_key'.kind # "Char") =>
          /\ input' = input
          /\ num_chars_typed' = num_chars_typed
          /\ num_errors' = num_errors
          /\ tui'.cursor_pos = tui.cursor_pos
          /\ tui'.style = tui.style
          /\ status' = "NotDone"
          /\ phase' = "running"]_vars

\* C18 witness: ctrl-x read in a test with a wrong character typed
OtherKeyChangesNothingWitness ==
    /\ phase = "running"
    /\ last_key = KeyCtrl("x")
    /\ Len(input) >= 2
    /\ tui.style[2] = IncorrectStyle
    /\ tui.cursor_pos.cur_char_in_line >= 1

-----------------------------------------------------------------------------
(* Claims about single calls of CursorPos::next and CursorPos::prev *)

\* the cursor is on the last character of its line
AtLineEnd(c) == c.cur_char_in_line = c.lines[c.cur_line + 1].length - 1

NextMovesAsDescribed ==
    cp'.last = "next" =>
        LET c == cp.c
            d == cp'.c
        IN  /\ d.lines = c.lines
            /\ ~AtLineEnd(c) =>
                  /\ d.cur_line = c.cur_line
                  /\ d.cur_char_in_line = c.cur_char_in_line + 1
            /\ (AtLineEnd(c) /\ c.cur_line + 1 < Len(c.lines)) =>
                  /\ d.cur_line = c.cur_line + 1
                  /\ d.cur_char_in_line = 0
            /\ (AtLineEnd(c) /\ c.cur_line + 1 = Len(c.lines)) =>
                  /\ d.cur_line = c.cur_line
                  /\ d.cur_char_in_line = c.cur_char_in_line

PrevMovesAsDescribed ==
    cp'.last = "prev" =>
        LET c == cp.c
            d == cp'.c
        IN  /\ d.lines = c.lines
            /\ c.cur_char_in_line > 0 =>
                  /\ d.cur_line = c.cur_line
                  /\ d.cur_char_in_line = c.cur_char_in_line - 1
            /\ (c.cur_char_in_line = 0 /\ c.cur_line > 0) =>
                  /\ d.cur_line = c.cur_line - 1
                  /\ d.cur_char_in_line = c.lines[c.cur_line].length - 1
            /\ (c.cur_char_in_line = 0 /\ c.cur_line = 0) =>
                  /\ d.cur_line = 0
                  /\ d.cur_char_in_line = 0

\* C19: next raises the offset by one when the cursor is not on the last
\* character of its line, else moves to offset 0 of the following line when
\* there is one, else leaves the cursor where it is; prev lowers the offset by
\* one when it is above 0, else moves to the last offset of the line before
\* when there is one, else leaves the cursor at (0, 0); neither changes the
\* list of lines.
CursorStepsOnePosition == [][NextMovesAsDescribed /\ PrevMovesAsDescribed]_vars

\* C19 witness: prev has just crossed from the start of the second line to the
\* last offset of a first line of several characters
CursorStepsOnePositionWitness ==
    /\ cp.last = "prev"
    /\ Len(cp.c.lines) >= 2
    /\ cp.c.cur_line = 0
    /\ cp.c.lines[1].length >= 2
    /\ cp.c.cur_char_in_line = cp.c.lines[1].length - 1

-----------------------------------------------------------------------------
(* Invariants of a running test *)

\* C20: while a test runs the buffer is shorter than the text and the
\* cursor's linear position, the lengths of the lines before its line plus
\* its offset, is the length of the buffer; the reads of the text at the
\* buffer's length and, with a non-empty buffer, one before it are in range.
CursorTracksBuffer ==
    phase = "running" =>
        /\ Len(input) < Len(OriginalText)
        /\ LinearPos(tui.cursor_pos) = Len(input)
        /\ Len(input) + 1 \in DOMAIN OriginalText
        /\ input # <<>> => Len(input) \in DOMAIN OriginalText
        /\ SumSeq([k \in 1..Len(tui.cursor_pos.lines) |-> tui.cursor_pos.lines[k].length])
              = Len(OriginalText)

\* C20 witness: a test with three characters typed across a line boundary
\* and one of them taken back
CursorTracksBufferWitness ==
    /\ phase = "running"
    /\ last_key = KeyBackspace
    /\ keys_read = 4
    /\ Len(input) = 2
    /\ tui.cursor_pos.cur_line = 1
    /\ tui.cursor_pos.cur_char_in_line = 1

\* the style the buffer asks for at position i (from 1) of the text
StyleByBuffer(i) ==
    IF i > Len(input) THEN DefaultStyle
    ELSE IF input[i] = OriginalText[i] THEN CorrectStyle
    ELSE IncorrectStyle

\* C21: while a test runs, whatever keys were read, every position of the
\* text is shown in the style the buffer determines: correct or incorrect
\* below the buffer's length as the typed character equals the text's or not,
\* default from the buffer's length on; the terminal cursor rests on the glyph
\* of the position the next write restyles, so every write lands on its glyph.
StyleFollowsBuffer ==
    phase = "running" =>
        /\ Len(tui.style) = Len(OriginalText)
        /\ \A i \in 1..Len(OriginalText) : tui.style[i] = StyleByBuffer(i)
        /\ tui.tcur = CurPos(tui.cursor_pos)
        /\ GlyphAt(tui, tui.tcur) = Len(input) + 1

\* C21 witness: a right character on the first line, a wrong one on the
\* second, and a third typed and taken back
StyleFollowsBufferWitness ==
    /\ phase = "running"
    /\ last_key = KeyBackspace
    /\ keys_read = 4
    /\ Len(input) = 2
    /\ Len(tui.cursor_pos.lines) = 2
    /\ tui.style[1] = CorrectStyle
    /\ tui.style[2] = IncorrectStyle
    /\ tui.style[3] = DefaultStyle

-----------------------------------------------------------------------------
(* Claims about the results of an ended run *)

\* run has built the GameResults of a test ended by Done, Quit or Restart
ResultsBuilt == status # "NotDone" /\ phase \in {"results", "restart", "exited"}

\* the two final counts add up to the length of the buffer, which is at most
\* the length of the text
FinalCountsCoverBuffer ==
    /\ results.final_chars_typed_correctly + results.final_uncorrected_errors = Len(input)
    /\ Len(input) <= Len(OriginalText)

\* C22 as stated: at the end of every run the two final counts add up to the
\* length of the buffer, at most the length of the text, and
\* final_uncorrected_errors is at most total_char_errors.
FinalErrorsWereCounted ==
    ResultsBuilt =>
        /\ FinalCountsCoverBuffer
        /\ results.final_uncorrected_errors <= results.total_char_errors

\* the character that finished the test differs from the text's last one
FinishedOnMistake ==
    /\ status = "Done"
    /\ input # <<>>
    /\ Len(input) <= Len(OriginalText)
    /\ input[Len(input)] # OriginalText[Len(input)]

\* C22: at the end of every run the two final counts add up to the length of
\* the buffer, at most the length of the text; final_uncorrected_errors is at
\* most total_char_errors, except after a test finished by a wrong character,
\* which is in the final buffer but was never counted: there it is at most
\* total_char_errors + 1.
FinalErrorsWereCountedButLast ==
    ResultsBuilt =>
        /\ FinalCountsCoverBuffer
        /\ results.total_char_errors = num_errors
        /\ ~FinishedOnMistake =>
              results.final_uncorrected_errors <= results.total_char_errors
        /\ FinishedOnMistake =>
              results.final_uncorrected_errors <= results.total_char_errors + 1

\* C22 witness: a test finished by a wrong character with an earlier mistake
\* still in the buffer: one more mistake in the buffer than was counted
FinalErrorsWereCountedWitness ==
    /\ phase = "results"
    /\ FinishedOnMistake
    /\ results.total_char_errors >= 1
    /\ results.final_uncorrected_errors = results.total_char_errors + 1

-----------------------------------------------------------------------------
(* Claims about the line descriptors display_words records *)

\* display_words returned lines for a non-empty sequence of words
LinesReturned == wrap.done /\ wrap.out.err = "none" /\ wrap.words # <<>>

\* the LinePos records display_a_line_raw pushed
LineDescriptors == wrap.out.tui.cursor_pos.lines

\* one descriptor per returned line, from the top down, each with the length
\* of its line, at least 1; every line but the last ends with a separator; the
\* lengths add up to the length of the concatenation of the lines
DescriptorsMatchLines ==
    LinesReturned =>
        /\ Len(LineDescriptors) = Len(wrap.out.lines)
        /\ \A k \in 1..Len(LineDescriptors) :
              /\ LineDescriptors[k].length = Len(wrap.out.lines[k].formatted_text)
              /\ LineDescriptors[k].length >= 1
              /\ k < Len(LineDescriptors) =>
                    /\ LineDescriptors[k].y < LineDescriptors[k + 1].y
                    /\ wrap.out.lines[k].formatted_text[LineDescriptors[k].length] = " "
        /\ SumSeq([k \in 1..Len(LineDescriptors) |-> LineDescriptors[k].length])
              = Len(Flatten([k \in 1..Len(wrap.out.lines) |-> wrap.out.lines[k].formatted_text]))

EveryLineHasAWord ==
    LinesReturned =>
        \A k \in 1..Len(wrap.out.lines) : LineWords(wrap.out.lines[k]) # <<>>

\* C23: for every non-empty sequence of non-empty words on which
\* display_words succeeds, the recorded line descriptors are one per wrapped
\* line from the top down, each of length 1 or more, every line holds at least
\* one word, and the lengths add up to the length of the text, the
\* concatenation of the lines with a separator after each line but the last.
DescriptorsCoverWordLines == DescriptorsMatchLines /\ EveryLineHasAWord

====
